---- MODULE Spec2Model ----
(***************************************************************************)
(* The projection engine of src/app_v1.py: simulate_retirement_savings,    *)
(* one action per block of the function, and main()'s re-execution of it   *)
(* when the family widgets change.                                         *)
(*                                                                         *)
(* Arithmetic.  The program computes in binary floating point.  Here an    *)
(* amount of money is an integer number of currency units and a rate or a  *)
(* growth factor is a fixed-point number with SCALE units to 1; every      *)
(* product, quotient and root is rounded to the nearest unit, as a         *)
(* correctly rounded floating-point operation is rounded to the nearest    *)
(* representable value.                                                    *)
(***************************************************************************)
EXTENDS Integers, Sequences, FiniteSets, TLC

\* Fixed-point resolution of rates and factors: the value 1.0 is SCALE.
SCALE == 1000

\* Largest horizon (years_to_retirement) the model draws.
MaxYears == 2

\* Largest family_growth_year the model draws.
MaxFamilyYear == 2

\* Largest interval_years of a PeriodicRaise the model draws.
MaxInterval == 2

\* df['Year'] = df['Month'] // 12 + 2024
BaseYear == 2024

\* An optional value: None, or Some(v) holding v.
None == << >>
Some(v) == <<v>>
ValueOf(option) == option[1]

NoException == ""

Max(a, b) == IF a >= b THEN a ELSE b

\* n / d rounded to the nearest integer, halves up (d > 0).
RoundDiv(n, d) == (2 * n + d) \div (2 * d)

\* value * factor, factor in fixed point.
FxMul(value, factor) == RoundDiv(value * factor, SCALE)

\* value / factor, factor in fixed point (factor > 0).
FxDiv(value, factor) == RoundDiv(value * SCALE, factor)

\* factor ** k, both in fixed point, k a natural number.
RECURSIVE FxPow(_, _)
FxPow(factor, k) == IF k = 0 THEN SCALE ELSE FxMul(FxPow(factor, k - 1), factor)

\* The greatest r in lo..hi with r*r <= n (lo*lo <= n).
RECURSIVE SqrtSearch(_, _, _)
SqrtSearch(n, lo, hi) ==
    IF lo = hi THEN lo
    ELSE LET mid == (lo + hi + 1) \div 2
         IN  IF mid * mid <= n THEN SqrtSearch(n, mid, hi)
                                ELSE SqrtSearch(n, lo, mid - 1)

\* The greatest r in lo..hi with r*r*r <= n (lo*lo*lo <= n).
RECURSIVE CbrtSearch(_, _, _)
CbrtSearch(n, lo, hi) ==
    IF lo = hi THEN lo
    ELSE LET mid == (lo + hi + 1) \div 2
         IN  IF mid * mid * mid <= n THEN CbrtSearch(n, mid, hi)
                                      ELSE CbrtSearch(n, lo, mid - 1)

\* x ** (1/2) in fixed point, rounded to nearest.
FxSqrt(x) ==
    LET n == x * SCALE
        r == SqrtSearch(n, 0, 46340)
    IN  IF n - r * r > r THEN r + 1 ELSE r

\* x ** (1/3) in fixed point, rounded to nearest.
FxCbrt(x) ==
    LET n == x * SCALE * SCALE
        r == CbrtSearch(n, 0, 1290)
    IN  IF 8 * (n - r * r * r) >= 12 * r * r + 6 * r + 1 THEN r + 1 ELSE r

\* (1 + annual) ** (1/12) - 1: the monthly-equivalent of an annual rate,
\* the twelfth root taken as sqrt(sqrt(cbrt(.))).
MonthlyRate(annual) == FxSqrt(FxSqrt(FxCbrt(SCALE + annual))) - SCALE

\* p per cent as a fixed-point rate.
Percent(p) == (p * SCALE) \div 100

VARIABLES
    \* the parameters of simulate_retirement_savings
    initial_investment,
    initial_monthly_contribution,
    annual_return_rate,
    inflation_rate,
    years_to_retirement,
    annual_income_growth_rate,
    plan_for_family,
    family_growth_year,
    family_growth_expense,
    country,
    \* the contribution growth policy (ContinuousGrowth in src/app_v1.py)
    growth_spec,
    \* the locals of simulate_retirement_savings
    monthly_return_rate,
    monthly_inflation_rate,
    monthly_income_growth_rate,
    months,
    portfolio_value,
    monthly_contribution,
    i,
    adjusted_contribution,   \* adjusted_contribution[k]: its value in iteration k
    real_value,
    df,
    \* where the call is: entry, loop, frame, returned, raised
    pc,
    exception,
    \* main(): the frame the previous execution of the script got
    previous_results

params == <<initial_investment, initial_monthly_contribution, annual_return_rate,
            inflation_rate, years_to_retirement, annual_income_growth_rate,
            plan_for_family, family_growth_year, family_growth_expense, country,
            growth_spec>>

locals == <<monthly_return_rate, monthly_inflation_rate, monthly_income_growth_rate,
            months, portfolio_value, monthly_contribution, i, adjusted_contribution,
            real_value, df>>

vars == <<params, locals, pc, exception, previous_results>>

Countries == {"India", "US", "Japan"}
Investments == {0, 10000}
Contributions == {0, 1000}
ReturnRates == {Percent(-10), 0, Percent(8)}
InflationRates == {Percent(-4), 0, Percent(4)}
GrowthRates == {0, Percent(5)}
Horizons == -1 .. MaxYears
FamilyYears == {None} \cup {Some(y) : y \in 0 .. MaxFamilyYear}
Expenses == {0, 500, 2000}

ContinuousGrowthSpec == [tag |-> "ContinuousGrowth"]

PeriodicRaiseSpecs ==
    {[tag |-> "PeriodicRaise", interval_years |-> y, raise_fraction |-> f] :
        y \in 1 .. MaxInterval, f \in {0, Percent(5)}}

\* np.arange(n): 0, 1, ..., n-1 (empty when n <= 0), indexed from 0.
Arange(n) == [k \in 0 .. (n - 1) |-> k]

\* np.zeros(n), indexed from 0.
Zeros(n) == [k \in 0 .. (n - 1) |-> 0]

\* len(a) of an array indexed from 0.
Length(a) == Cardinality(DOMAIN a)

\* A bug: np.arange(years_to_retirement * 12), the last month left out.
MonthCountWithoutLast == years_to_retirement * 12

\* years_to_retirement * 12 + 1
MonthCount == years_to_retirement * 12 + 1

\* A bug: the family adjustment applied to record 0 as well.
InitialContributionAdjusted ==
    IF /\ plan_for_family
       /\ family_growth_year # None
       /\ 0 >= ValueOf(family_growth_year) * 12
    THEN Max(0, initial_monthly_contribution - family_growth_expense)
    ELSE initial_monthly_contribution

\* monthly_contribution[0] = initial_monthly_contribution
InitialContribution == initial_monthly_contribution

\* A bug: the annual rate applied every month.
ContinuousGrowthAnnual(previous) == FxMul(previous, SCALE + annual_income_growth_rate)

\* monthly_contribution[i-1] * (1 + monthly_income_growth_rate)
ContinuousGrowth(previous) == FxMul(previous, SCALE + monthly_income_growth_rate)

\* A bug: every raise computed on the initial contribution, not compounding.
PeriodicRaiseSimple(previous, month) ==
    IF month % (growth_spec.interval_years * 12) = 0
    THEN previous + FxMul(initial_monthly_contribution, growth_spec.raise_fraction)
    ELSE previous

\* The PeriodicRaise policy: the contribution is held within an interval of
\* interval_years*12 months and raised by raise_fraction at the first month
\* of every following interval.
PeriodicRaise(previous, month) ==
    IF month % (growth_spec.interval_years * 12) = 0
    THEN FxMul(previous, SCALE + growth_spec.raise_fraction)
    ELSE previous

GrossContribution(previous, month) ==
    IF growth_spec.tag = "ContinuousGrowth"
    THEN ContinuousGrowth(previous)
    ELSE PeriodicRaise(previous, month)

\* A bug: i > family_growth_year * 12, the milestone month itself unadjusted.
AdjustedContributionAfter(gross, month) ==
    IF plan_for_family /\ month > ValueOf(family_growth_year) * 12
    THEN Max(0, gross - family_growth_expense)
    ELSE gross

\* A bug: the subtraction without its floor at 0.
AdjustedContributionNoFloor(gross, month) ==
    IF plan_for_family /\ month >= ValueOf(family_growth_year) * 12
    THEN gross - family_growth_expense
    ELSE gross

\* if plan_for_family and i >= family_growth_year * 12:
\*     max(0, monthly_contribution[i] - family_growth_expense)
\* else: monthly_contribution[i]
AdjustedContribution(gross, month) ==
    IF plan_for_family /\ month >= ValueOf(family_growth_year) * 12
    THEN Max(0, gross - family_growth_expense)
    ELSE gross

\* A bug: a return rate assumed positive, a negative one clamped to 0.
NextPortfolioValueClamped(previous, adjusted) ==
    FxMul(previous, SCALE + Max(0, monthly_return_rate)) + adjusted

\* portfolio_value[i-1] * (1 + monthly_return_rate) + adjusted_contribution
NextPortfolioValue(previous, adjusted) ==
    FxMul(previous, SCALE + monthly_return_rate) + adjusted

\* A bug: the balance multiplied by the compounded inflation.
RealValueInflated(k) ==
    FxMul(portfolio_value[k], FxPow(SCALE + monthly_inflation_rate, months[k]))

\* portfolio_value / (1 + monthly_inflation_rate) ** months, element k
RealValue(k) ==
    FxDiv(portfolio_value[k], FxPow(SCALE + monthly_inflation_rate, months[k]))

Divisor ==
    IF country = "India" THEN 10000000 ELSE 1000000

ContributionDivisor ==
    IF country = "India" THEN 100000 ELSE 1000

\* The column labels; the Japanese labels of lines 107 and 109 are
\* written in Latin letters here.
ValueLabel ==
    IF country = "India" THEN "Value (Cr)"
    ELSE IF country = "US" THEN "Value (Millions)"
    ELSE "Value (Hyakuman)"

ContributionLabel ==
    IF country = "India" THEN "Monthly Contribution (Lakhs)"
    ELSE IF country = "US" THEN "Monthly Contribution (Thousands)"
    ELSE "Monthly Contribution (Sen)"

\* A quotient the frame holds, kept exact: numerator over denominator.
Quotient(n, d) == <<n, d>>

\* A bug: the frame given the contribution after the family adjustment.
ContributionColumnAdjusted(k) ==
    Quotient(IF k \in DOMAIN adjusted_contribution
             THEN adjusted_contribution[k] ELSE monthly_contribution[k],
             ContributionDivisor)

\* contribution_label: monthly_contribution / contribution_divisor, row k
ContributionColumn(k) == Quotient(monthly_contribution[k], ContributionDivisor)

\* df['Year'] = df['Month'] // 12 + 2024, row k
YearOf(month) == month \div 12 + BaseYear

NoFrame == [labels |-> << >>, rows |-> << >>]

Init ==
    /\ initial_investment \in Investments
    /\ initial_monthly_contribution \in Contributions
    /\ annual_return_rate \in ReturnRates
    /\ inflation_rate \in InflationRates
    /\ years_to_retirement \in Horizons
    /\ annual_income_growth_rate \in GrowthRates
    /\ plan_for_family \in BOOLEAN
    /\ family_growth_year \in FamilyYears
    /\ family_growth_expense \in Expenses
    /\ country \in Countries
    /\ growth_spec = ContinuousGrowthSpec
    /\ monthly_return_rate = 0
    /\ monthly_inflation_rate = 0
    /\ monthly_income_growth_rate = 0
    /\ months = << >>
    /\ portfolio_value = << >>
    /\ monthly_contribution = << >>
    /\ i = 0
    /\ adjusted_contribution = << >>
    /\ real_value = << >>
    /\ df = NoFrame
    /\ pc = "entry"
    /\ exception = NoException
    /\ previous_results = NoFrame

\* Lines 70-78: the monthly rates and the arrays.  portfolio_value[0] = ...
\* raises IndexError when the arrays are empty (a negative horizon).
Setup ==
    /\ pc = "entry"
    /\ monthly_return_rate' = MonthlyRate(annual_return_rate)
    /\ monthly_inflation_rate' = MonthlyRate(inflation_rate)
    /\ monthly_income_growth_rate' =
          IF growth_spec.tag = "ContinuousGrowth"
          THEN MonthlyRate(annual_income_growth_rate) ELSE 0
    /\ months' = Arange(MonthCount)
    /\ IF Length(months') = 0
       THEN /\ portfolio_value' = Zeros(0)
            /\ monthly_contribution' = << >>
            /\ pc' = "raised"
            /\ exception' = "IndexError"
            /\ i' = i
       ELSE /\ portfolio_value' =
                [Zeros(Length(months')) EXCEPT ![0] = initial_investment]
            /\ monthly_contribution' =
                [Zeros(Length(months')) EXCEPT ![0] = InitialContribution]
            /\ pc' = "loop"
            /\ exception' = exception
            /\ i' = 1
    /\ UNCHANGED <<params, adjusted_contribution, real_value, df, previous_results>>

\* Lines 80-91: one iteration of the loop.  With plan_for_family set and
\* family_growth_year None, line 83 raises TypeError after line 81 has run.
LoopStep ==
    /\ pc = "loop"
    /\ i < Length(months)
    /\ LET gross == GrossContribution(monthly_contribution[i - 1], i)
       IN  /\ monthly_contribution' = [monthly_contribution EXCEPT ![i] = gross]
           /\ IF plan_for_family /\ family_growth_year = None
              THEN /\ pc' = "raised"
                   /\ exception' = "TypeError"
                   /\ UNCHANGED <<adjusted_contribution, portfolio_value, i>>
              ELSE LET adjusted == AdjustedContribution(gross, i)
                   IN  /\ adjusted_contribution' =
                              Append(adjusted_contribution, adjusted)
                       /\ portfolio_value' =
                              [portfolio_value EXCEPT
                                 ![i] = NextPortfolioValue(portfolio_value[i - 1],
                                                           adjusted)]
                       /\ i' = i + 1
                       /\ UNCHANGED <<pc, exception>>
    /\ UNCHANGED <<params, monthly_return_rate, monthly_inflation_rate,
                   monthly_income_growth_rate, months, real_value, df,
                   previous_results>>

\* Line 93, once the loop is over.
Deflate ==
    /\ pc = "loop"
    /\ i >= Length(months)
    /\ real_value' = [k \in DOMAIN portfolio_value |-> RealValue(k)]
    /\ pc' = "frame"
    /\ UNCHANGED <<params, monthly_return_rate, monthly_inflation_rate,
                   monthly_income_growth_rate, months, portfolio_value,
                   monthly_contribution, i, adjusted_contribution, df,
                   exception, previous_results>>

\* Lines 95-119: the frame and the return.
BuildFrame ==
    /\ pc = "frame"
    /\ df' = [labels |-> <<"Month", "Nominal " \o ValueLabel, "Real " \o ValueLabel,
                           ContributionLabel, "Year">>,
              rows |-> [k \in DOMAIN months |->
                          [Month |-> months[k],
                           Nominal |-> Quotient(portfolio_value[k], Divisor),
                           Real |-> Quotient(real_value[k], Divisor),
                           Contribution |-> ContributionColumn(k),
                           Year |-> YearOf(months[k])]]]
    /\ pc' = "returned"
    /\ UNCHANGED <<params, monthly_return_rate, monthly_inflation_rate,
                   monthly_income_growth_rate, months, portfolio_value,
                   monthly_contribution, i, adjusted_contribution, real_value,
                   exception, previous_results>>

Next == Setup \/ LoopStep \/ Deflate \/ BuildFrame

Spec == Init /\ [][Next]_vars

(***************************************************************************)
(* main(): the script runs once with the widgets' initial values (the      *)
(* family checkbox unticked, lines 234-236) and again whenever the user    *)
(* changes a family widget (lines 237-252).                                *)
(***************************************************************************)
FamilyYearSlider == {Some(y) : y \in 1 .. MaxFamilyYear}

InitMain ==
    /\ initial_investment \in Investments
    /\ initial_monthly_contribution \in Contributions
    /\ annual_return_rate = Percent(8)
    /\ inflation_rate = Percent(4)
    /\ years_to_retirement \in 1 .. MaxYears
    /\ annual_income_growth_rate \in GrowthRates
    /\ plan_for_family = FALSE
    /\ family_growth_year = None
    /\ family_growth_expense = 0
    /\ country \in Countries
    /\ growth_spec = ContinuousGrowthSpec
    /\ monthly_return_rate = 0
    /\ monthly_inflation_rate = 0
    /\ monthly_income_growth_rate = 0
    /\ months = << >>
    /\ portfolio_value = << >>
    /\ monthly_contribution = << >>
    /\ i = 0
    /\ adjusted_contribution = << >>
    /\ real_value = << >>
    /\ df = NoFrame
    /\ pc = "entry"
    /\ exception = NoException
    /\ previous_results = NoFrame

Rerun ==
    /\ pc = "returned"
    /\ plan_for_family' \in BOOLEAN
    /\ IF plan_for_family'
       THEN /\ family_growth_year' \in FamilyYearSlider
            /\ family_growth_expense' \in Expenses
       ELSE /\ family_growth_year' = None
            /\ family_growth_expense' = 0
    /\ previous_results' = df
    /\ monthly_return_rate' = 0
    /\ monthly_inflation_rate' = 0
    /\ monthly_income_growth_rate' = 0
    /\ months' = << >>
    /\ portfolio_value' = << >>
    /\ monthly_contribution' = << >>
    /\ i' = 0
    /\ adjusted_contribution' = << >>
    /\ real_value' = << >>
    /\ df' = NoFrame
    /\ pc' = "entry"
    /\ UNCHANGED <<initial_investment, initial_monthly_contribution,
                   annual_return_rate, inflation_rate, years_to_retirement,
                   annual_income_growth_rate, country, growth_spec, exception>>

NextMain == Setup \/ LoopStep \/ Deflate \/ BuildFrame \/ Rerun

SpecMain == InitMain /\ [][NextMain]_vars

(***************************************************************************)
(* The engine under a PeriodicRaise growth policy.                         *)
(***************************************************************************)
InitRaise ==
    /\ initial_investment \in Investments
    /\ initial_monthly_contribution \in Contributions
    /\ annual_return_rate = Percent(8)
    /\ inflation_rate = Percent(4)
    /\ years_to_retirement \in 1 .. MaxYears
    /\ annual_income_growth_rate = 0
    /\ plan_for_family \in BOOLEAN
    /\ family_growth_year \in FamilyYearSlider
    /\ family_growth_expense \in Expenses
    /\ country \in Countries
    /\ growth_spec \in PeriodicRaiseSpecs
    /\ monthly_return_rate = 0
    /\ monthly_inflation_rate = 0
    /\ monthly_income_growth_rate = 0
    /\ months = << >>
    /\ portfolio_value = << >>
    /\ monthly_contribution = << >>
    /\ i = 0
    /\ adjusted_contribution = << >>
    /\ real_value = << >>
    /\ df = NoFrame
    /\ pc = "entry"
    /\ exception = NoException
    /\ previous_results = NoFrame

SpecRaise == InitRaise /\ [][Next]_vars

(***************************************************************************)
(* The properties.                                                         *)
(***************************************************************************)

\* The months whose iteration has run to its end: adjusted_contribution[k]
\* and portfolio_value[k] are set.
CompletedMonths == DOMAIN adjusted_contribution

\* The months whose monthly_contribution[k] line 81 has set.
AssignedMonths ==
    IF pc = "raised" /\ exception = "TypeError" THEN 1 .. i ELSE 1 .. (i - 1)

\* The last month index of the horizon.
LastMonth == years_to_retirement * 12

\* C1: balance[0] = initial_investment and, for every month k in 1..N,
\* balance[k] = balance[k-1] * (1 + monthly_return_rate) + the contribution
\* of month k after the family adjustment, whatever the sign of the rate.
C1_BalanceRecurrence ==
    /\ 0 \in DOMAIN portfolio_value => portfolio_value[0] = initial_investment
    /\ pc \in {"loop", "frame", "returned"} =>
          monthly_return_rate = MonthlyRate(annual_return_rate)
    /\ \A k \in CompletedMonths :
          portfolio_value[k] =
              RoundDiv(portfolio_value[k - 1] * (SCALE + monthly_return_rate), SCALE)
              + adjusted_contribution[k]
    /\ pc \in {"frame", "returned"} => CompletedMonths = 1 .. LastMonth

C1_Witness ==
    /\ pc = "returned"
    /\ monthly_return_rate < 0
    /\ initial_investment > 0
    /\ LastMonth >= 12
    /\ portfolio_value[1] < portfolio_value[0] + adjusted_contribution[1]

\* C2: the contribution applied in month k is the gross contribution when
\* plan_for_family is false (family_growth_year None included) or k is
\* before family_growth_year*12, and max(0, gross - expense) otherwise.
C2_AppliedContribution ==
    \A k \in CompletedMonths :
        adjusted_contribution[k] =
            IF ~plan_for_family THEN monthly_contribution[k]
            ELSE IF k < ValueOf(family_growth_year) * 12 THEN monthly_contribution[k]
            ELSE IF monthly_contribution[k] - family_growth_expense >= 0
                 THEN monthly_contribution[k] - family_growth_expense
                 ELSE 0

C2_Witness ==
    /\ pc = "returned"
    /\ plan_for_family
    /\ family_growth_expense > 0
    /\ \E k1, k2 \in CompletedMonths :
          /\ k1 < ValueOf(family_growth_year) * 12
          /\ k2 = ValueOf(family_growth_year) * 12
          /\ adjusted_contribution[k1] = monthly_contribution[k1]
          /\ adjusted_contribution[k2] =
                monthly_contribution[k2] - family_growth_expense
          /\ adjusted_contribution[k2] > 0

\* C2, the unconfigured case: plan_for_family false with family_growth_year
\* None runs to the end with every month's gross contribution applied.
C2_WitnessUnconfigured ==
    /\ pc = "returned"
    /\ ~plan_for_family
    /\ family_growth_year = None
    /\ family_growth_expense > 0
    /\ LastMonth >= 12
    /\ \A k \in CompletedMonths :
          adjusted_contribution[k] = monthly_contribution[k]

\* C3: the contribution added to the balance is >= 0 in every month.
C3_AppliedNonNegative ==
    \A k \in CompletedMonths : adjusted_contribution[k] >= 0

C3_Witness ==
    /\ pc = "returned"
    /\ plan_for_family
    /\ \E k \in CompletedMonths :
          /\ k >= ValueOf(family_growth_year) * 12
          /\ monthly_contribution[k] > 0
          /\ monthly_contribution[k] < family_growth_expense
          /\ adjusted_contribution[k] = 0

\* C4: with inflation_rate >= 0 the real value is <= the nominal balance
\* at every month index 0..N, with equality at index 0.
C4_RealAtMostNominal ==
    (pc \in {"frame", "returned"} /\ inflation_rate >= 0) =>
        /\ DOMAIN real_value = 0 .. LastMonth
        /\ real_value[0] = portfolio_value[0]
        /\ \A k \in DOMAIN real_value : real_value[k] <= portfolio_value[k]
        /\ pc = "returned" =>
              \A k \in DOMAIN df.rows :
                 /\ df.rows[k].Real[2] = df.rows[k].Nominal[2]
                 /\ df.rows[k].Real[1] <= df.rows[k].Nominal[1]

C4_Witness ==
    /\ pc = "returned"
    /\ inflation_rate > 0
    /\ LastMonth >= 12
    /\ df.rows[0].Real = df.rows[0].Nominal
    /\ df.rows[0].Nominal[1] > 0
    /\ df.rows[LastMonth].Real[1] < df.rows[LastMonth].Nominal[1]

\* C5: the returned series has years_to_retirement*12 + 1 records, month
\* indices 0..years_to_retirement*12 in order, and Year = Month // 12 + 2024.
C5_LengthAndYear ==
    pc = "returned" =>
        /\ DOMAIN df.rows = 0 .. (years_to_retirement * 12)
        /\ Cardinality(DOMAIN df.rows) = years_to_retirement * 12 + 1
        /\ \A k \in DOMAIN df.rows :
              /\ df.rows[k].Month = k
              /\ df.rows[k].Year = k \div 12 + 2024

C5_Witness ==
    /\ pc = "returned"
    /\ years_to_retirement >= 2
    /\ df.rows[11].Year = 2024
    /\ df.rows[12].Year = 2025
    /\ df.rows[24].Year = 2026

\* C6: record 0 holds initial_investment as its nominal balance and
\* initial_monthly_contribution as its contribution, whatever the growth
\* rate and the family adjustment, a milestone at month 0 included.
C6_RecordZero ==
    /\ 0 \in DOMAIN portfolio_value =>
          /\ portfolio_value[0] = initial_investment
          /\ monthly_contribution[0] = initial_monthly_contribution
    /\ pc = "returned" =>
          /\ df.rows[0].Month = 0
          /\ df.rows[0].Nominal = <<initial_investment, Divisor>>
          /\ df.rows[0].Contribution =
                <<initial_monthly_contribution, ContributionDivisor>>

C6_Witness ==
    /\ pc = "returned"
    /\ plan_for_family
    /\ family_growth_year = Some(0)
    /\ family_growth_expense > 0
    /\ annual_income_growth_rate > 0
    /\ initial_monthly_contribution > 0
    /\ LastMonth >= 12
    /\ adjusted_contribution[1] < monthly_contribution[1]

\* C7: malformed parameters (a zero or negative horizon) are rejected before
\* the simulation starts: no series is returned for them.
C7_MalformedRejected ==
    years_to_retirement <= 0 => pc # "returned"

\* C8: the contribution series of the output is the gross contribution:
\* a run that differs from the previous one only in the family adjustment
\* returns the same contribution series.
C8_ContributionIsGross ==
    /\ pc = "returned" =>
          \A k \in DOMAIN df.rows :
             df.rows[k].Contribution =
                <<monthly_contribution[k], ContributionDivisor>>
    /\ (pc = "returned" /\ previous_results # NoFrame) =>
          /\ DOMAIN df.rows = DOMAIN previous_results.rows
          /\ \A k \in DOMAIN df.rows :
                df.rows[k].Contribution = previous_results.rows[k].Contribution
    /\ \A k \in AssignedMonths :
          monthly_contribution[k] =
              RoundDiv(monthly_contribution[k - 1]
                          * (SCALE + monthly_income_growth_rate), SCALE)

C8_Witness ==
    /\ pc = "returned"
    /\ previous_results # NoFrame
    /\ plan_for_family
    /\ \E k \in DOMAIN df.rows :
          /\ k \in CompletedMonths
          /\ adjusted_contribution[k] < monthly_contribution[k]
          /\ df.rows[k].Nominal # previous_results.rows[k].Nominal
          /\ df.rows[k].Contribution = previous_results.rows[k].Contribution

\* C9: under PeriodicRaise the contribution is held within each interval of
\* interval_years*12 months and multiplied by (1 + raise_fraction) at the
\* first month of every following interval, each raise on the raised amount;
\* with interval_years = 1 and raise_fraction = 5% month 12 holds the initial
\* contribution * 1.05 and month 24 that * 1.05 again.
C9_PeriodicRaise ==
    growth_spec.tag = "PeriodicRaise" =>
        LET interval == growth_spec.interval_years * 12
            factor == SCALE + growth_spec.raise_fraction
        IN  /\ \A k \in AssignedMonths :
                  monthly_contribution[k] =
                      IF k % interval = 0
                      THEN RoundDiv(monthly_contribution[k - 1] * factor, SCALE)
                      ELSE monthly_contribution[k - 1]
            /\ \A k \in AssignedMonths :
                  k < interval =>
                      monthly_contribution[k] = initial_monthly_contribution
            /\ (growth_spec.interval_years = 1
                   /\ growth_spec.raise_fraction = Percent(5)) =>
                  /\ 12 \in AssignedMonths =>
                        monthly_contribution[12] =
                            RoundDiv(initial_monthly_contribution * factor, SCALE)
                  /\ 24 \in AssignedMonths =>
                        monthly_contribution[24] =
                            RoundDiv(RoundDiv(initial_monthly_contribution * factor,
                                              SCALE) * factor, SCALE)

C9_Witness ==
    /\ pc = "returned"
    /\ growth_spec.tag = "PeriodicRaise"
    /\ growth_spec.interval_years = 1
    /\ growth_spec.raise_fraction = Percent(5)
    /\ initial_monthly_contribution > 0
    /\ years_to_retirement >= 2
    /\ monthly_contribution[11] = initial_monthly_contribution
    /\ monthly_contribution[12] > initial_monthly_contribution
    /\ monthly_contribution[23] = monthly_contribution[12]
    /\ monthly_contribution[24] - monthly_contribution[12]
          > monthly_contribution[12] - initial_monthly_contribution

\* C10 as stated: contribution[k] > contribution[k-1] for every month k
\* whenever annual_growth_rate > 0, for every initial contribution >= 0.
C10_StrictlyIncreasing ==
    annual_income_growth_rate > 0 =>
        \A k \in AssignedMonths :
            monthly_contribution[k] > monthly_contribution[k - 1]

\* C10 as amended: contribution[k] = contribution[k-1] * (1 + monthly growth
\* rate) for every month k; with annual_growth_rate > 0 the series never
\* decreases, it increases strictly when the initial contribution is > 0,
\* and it is 0 throughout when the initial contribution is 0.
C10_IncreasingFromPositive ==
    /\ pc \in {"loop", "frame", "returned"} =>
          monthly_income_growth_rate = MonthlyRate(annual_income_growth_rate)
    /\ \A k \in AssignedMonths :
          /\ monthly_contribution[k] =
                RoundDiv(monthly_contribution[k - 1]
                            * (SCALE + monthly_income_growth_rate), SCALE)
          /\ annual_income_growth_rate > 0 =>
                monthly_contribution[k] >= monthly_contribution[k - 1]
          /\ (annual_income_growth_rate > 0 /\ initial_monthly_contribution > 0) =>
                monthly_contribution[k] > monthly_contribution[k - 1]
          /\ initial_monthly_contribution = 0 => monthly_contribution[k] = 0

C10_Witness ==
    /\ pc = "returned"
    /\ annual_income_growth_rate > 0
    /\ initial_monthly_contribution > 0
    /\ LastMonth >= 12
    /\ monthly_contribution[LastMonth] > monthly_contribution[0]

====
